---- MODULE Spec2Model ----
(***************************************************************************)
(* Model of mongodb_bridge.py: a Flask gateway that checks a shared-secret *)
(* header, validates a JSON body, lazily creates one MongoClient and maps  *)
(* each route onto one driver call, passing request parameters through     *)
(* parse_json_extended and results through serialize_response.             *)
(*                                                                         *)
(* A request is served by one worker thread (app.run(threaded=True)).  A   *)
(* thread walks  idle -> routed -> body -> get_client -> [construct] ->    *)
(* operate -> done -> idle.  The driver and the database are the           *)
(* environment: every driver call either returns, raises a PyMongoError,   *)
(* or raises some other exception; the choice is recorded in env[t].       *)
(***************************************************************************)
EXTENDS Integers, Sequences, FiniteSets, TLC

\* ------------------------------------------------------------------ bounds
NThreads == 2
MaxMatch == 2
MaxBatch == 2
MaxColls == 2
MaxLimit == 2

\* --------------------------------------------------------------- constants
DefaultLimit == 100
DefaultSampleSize == 5

Threads == 1..NThreads

Min(a, b) == IF a < b THEN a ELSE b
Max(a, b) == IF a > b THEN a ELSE b
Abs(a) == IF a < 0 THEN 0 - a ELSE a

\* ------------------------------------------------------------ Python values
\* One Python/JSON value.  t: its type; n: an int's value or a list's length;
\* s: a string's value; k: the kind of a document (or of the elements of a
\* list): "empty" is {}, "plain" holds only JSON-native values, "tagged"
\* holds an extended-JSON tag such as {"$oid": ...}, "badtag" holds a tag the
\* codec cannot decode, "rich" holds a BSON value such as an ObjectId.
\* via: where the value comes from: "wire" (request JSON), "py" (built by
\* the gateway), "decoded", "backend", "encoded".
J(t, n, s, k, via) == [t |-> t, n |-> n, s |-> s, k |-> k, via |-> via]

Absent == J("absent", 0, "", "", "wire")
None == J("null", 0, "", "", "py")
JNull == J("null", 0, "", "", "wire")
JTrue == J("true", 0, "", "", "wire")
JFalse == J("false", 0, "", "", "wire")
JInt(n) == J("int", n, "", "", "wire")
JStr(s) == J("str", 0, s, "", "wire")
JDoc(k) == J("doc", 0, "", k, "wire")
JList(n, k) == J("list", n, "", k, "wire")
PyInt(n) == J("int", n, "", "", "py")
PyTrue == J("true", 0, "", "", "py")
PyFalse == J("false", 0, "", "", "py")
PyDoc(k) == J("doc", 0, "", k, "py")
PyList(n, k) == J("list", n, "", k, "py")
BackendInt(n) == J("int", n, "", "", "backend")
BackendDoc == J("doc", 0, "", "rich", "backend")
BackendList(n, k) == J("list", n, "", k, "backend")

\* Python truthiness, as used by `not x` and `if x:`.
Truthy(v) ==
    CASE v.t = "true" -> TRUE
      [] v.t = "int" -> v.n # 0
      [] v.t = "str" -> v.s # ""
      [] v.t = "doc" -> v.k # "empty"
      [] v.t = "list" -> v.n > 0
      [] OTHER -> FALSE

\* dict.get(key, default): the default only when the key is absent.
Get(data, key, default) == IF data[key].t = "absent" THEN default ELSE data[key]

\* -------------------------------------------------------------------- codec
\* json_util.loads(json.dumps(data)) raises on a tag it cannot decode.
ParseRaises(v) == v.t \in {"doc", "list"} /\ v.k = "badtag" /\ (v.t = "list" => v.n > 0)

\* A handler that hands the request's JSON to the driver as it came.
PassThrough(v) == v

\* parse_json_extended: tagged documents become BSON values.
parse_json_extended(v) ==
    [v EXCEPT !.k = IF v.t \in {"doc", "list"} /\ v.k = "tagged" THEN "rich" ELSE @,
              !.via = "decoded"]

\* serialize_response: BSON values become tagged JSON.
serialize_response(v) ==
    [v EXCEPT !.k = IF v.t \in {"doc", "list"} /\ v.k = "rich" THEN "tagged" ELSE @,
              !.via = "encoded"]

\* jsonify raises TypeError on a value that is not JSON-native.
JsonSafe(v) == ~(v.t \in {"doc", "list"} /\ v.k = "rich" /\ (v.t = "list" => v.n > 0))

\* ----------------------------------------------------------------- requests
API_KEY == "k1"

PathRoutes == {"list_databases", "list_collections", "count_documents", "list_indexes"}
BodyRoutes == {"query", "aggregate", "insert", "update", "delete", "run_command", "sample"}
ProtectedRoutes == PathRoutes \cup BodyRoutes

\* The X-API-Key header as request.headers.get returns it: None when absent.
HeaderValues == {None, JStr(""), JStr("k2"), JStr(API_KEY)}

\* What request.get_json() does with the body: "raise" (malformed JSON or a
\* media type Flask rejects), "null" (None, or another falsy non-object),
\* "empty" ({}), "nondict" (a truthy value that is no object), "dict".
BodyKinds == {"raise", "null", "empty", "nondict", "dict"}

DocKinds == {"empty", "plain", "tagged", "badtag"}
Names == {Absent, JStr(""), JStr("d")}
Filters == {Absent} \cup {JDoc(k) : k \in DocKinds}
Flags == {Absent, JFalse, JTrue}
Limits == {Absent, JNull, JInt(0 - 1)} \cup {JInt(n) : n \in 0..MaxLimit}
Skips == {Absent, JInt(0), JInt(1)}
Pipelines == {Absent, JList(0, "plain")} \cup {JList(1, k) : k \in DocKinds \ {"empty"}}
Documents == {Absent, JList(0, "plain")} \cup {JDoc(k) : k \in DocKinds}
                 \cup {JList(n, k) : n \in 1..MaxBatch, k \in DocKinds}
Sizes == {Absent} \cup {JInt(n) : n \in 0..MaxLimit}

Fields == {"database", "collection", "filter", "projection", "sort", "limit", "skip",
           "pipeline", "documents", "ordered", "update", "many", "upsert", "command",
           "size"}

\* A request: the route, the X-API-Key header, what get_json() makes of the
\* body, and the fields of a body that is a JSON object.
Request(route, key, body, data) == [route |-> route, key |-> key, body |-> body, data |-> data]

NoData == [f \in Fields |-> Absent]

\* A request with no body fields.
BareRequest(route, key, body) == Request(route, key, body, NoData)

\* Path routes take <db> and <collection> from the URL: non-empty strings.
PathRequest(route, key) ==
    Request(route, key, "none",
            [NoData EXCEPT !["database"] = JStr("d"),
                           !["collection"] = IF route \in {"count_documents", "list_indexes"}
                                             THEN JStr("d") ELSE Absent])

QueryRequest(key, d, c, f, s, l, k) ==
    Request("query", key, "dict",
            [NoData EXCEPT !["database"] = d, !["collection"] = c, !["filter"] = f,
                           !["sort"] = s, !["limit"] = l, !["skip"] = k])

AggregateRequest(key, d, c, p) ==
    Request("aggregate", key, "dict",
            [NoData EXCEPT !["database"] = d, !["collection"] = c, !["pipeline"] = p])

InsertRequest(key, d, c, x, o) ==
    Request("insert", key, "dict",
            [NoData EXCEPT !["database"] = d, !["collection"] = c, !["documents"] = x,
                           !["ordered"] = o])

UpdateRequest(key, d, c, f, u, m, s) ==
    Request("update", key, "dict",
            [NoData EXCEPT !["database"] = d, !["collection"] = c, !["filter"] = f,
                           !["update"] = u, !["many"] = m, !["upsert"] = s])

DeleteRequest(key, d, c, f, m) ==
    Request("delete", key, "dict",
            [NoData EXCEPT !["database"] = d, !["collection"] = c, !["filter"] = f,
                           !["many"] = m])

CommandRequest(key, d, c) ==
    Request("run_command", key, "dict",
            [NoData EXCEPT !["database"] = d, !["command"] = c])

SampleRequest(key, d, c, s) ==
    Request("sample", key, "dict",
            [NoData EXCEPT !["database"] = d, !["collection"] = c, !["size"] = s])

NoRequest == BareRequest("none", None, "none")

\* ---------------------------------------------------------------- responses
\* shape: the route's name for its success body, "error" for {"error": msg},
\* "escaped" for the framework's answer to an exception no handler caught.
\* n: a count the gateway computes with len(); vals: the other values of the
\* body; entries: the collections of a listing, <<name, has stats>>.
Response(status, shape, msg, n, vals, entries) ==
    [status |-> status, shape |-> shape, msg |-> msg, n |-> n, vals |-> vals,
     entries |-> entries]

NoResponse == Response(0, "none", "", 0, <<>>, <<>>)
ErrorResponse(status, msg) == Response(status, "error", msg, 0, <<>>, <<>>)
Success(shape, n, vals) == Response(200, shape, "", n, vals, <<>>)
Escaped == Response(500, "escaped", "", 0, <<>>, <<>>)

\* The operation name each handler puts before an unexpected error's text.
Prefix(route) ==
    CASE route = "query" -> "Query error"
      [] route = "aggregate" -> "Aggregation error"
      [] route = "insert" -> "Insert error"
      [] route = "update" -> "Update error"
      [] route = "delete" -> "Delete error"
      [] route = "run_command" -> "Command error"
      [] route = "sample" -> "Sample error"
      [] OTHER -> ""

\* The except clauses of a handler: PyMongoError -> 500 on every route;
\* Exception -> 400 on the body routes only.
Caught(route, exc) ==
    IF exc = "pymongo" THEN ErrorResponse(500, "backend")
    ELSE IF route \in BodyRoutes THEN ErrorResponse(400, Prefix(route))
    ELSE Escaped

\* --------------------------------------------------------------- validation
\* The fields each handler tests with `not x` before it touches the backend.
RequiredFields(route) ==
    CASE route = "insert" -> {"database", "collection", "documents"}
      [] route = "update" -> {"database", "collection", "update"}
      [] route = "run_command" -> {"command"}
      [] OTHER -> {"database", "collection"}

RequiredMessage(route) ==
    CASE route = "insert" -> "database, collection, and documents are required"
      [] route = "update" -> "database, collection, and update are required"
      [] route = "run_command" -> "command is required"
      [] OTHER -> "database and collection are required"

\* A handler from request.get_json() to its last `return ..., 400` before
\* get_client(): the response it returns there, or NoResponse when it goes on.
Validation(r) ==
    IF r.body = "raise" THEN Caught(r.route, "other")
    ELSE IF r.body \in {"null", "empty"} THEN ErrorResponse(400, "Request body required")
    ELSE IF r.body = "nondict" THEN Caught(r.route, "other")
    ELSE IF \E f \in RequiredFields(r.route) : ~Truthy(Get(r.data, f, None))
         THEN ErrorResponse(400, RequiredMessage(r.route))
    ELSE NoResponse

\* A gate that compares only a header that was sent.
RejectsMismatchOnly(provided_key) == Truthy(provided_key) /\ provided_key.s # API_KEY

\* require_api_key's test: reject unless the header is present, non-empty and
\* equal to the credential.
Rejects(provided_key) == ~Truthy(provided_key) \/ provided_key.s # API_KEY

\* -------------------------------------------------------------------- state
VARIABLES
    client,   \* the global _client: 0 is None, otherwise the handle's identity
    created,  \* how many MongoClient objects have been constructed
    pc,       \* where each worker thread is
    req,      \* the request a thread serves
    resp,     \* the response it returned
    handle,   \* what get_client() returned to it
    steps,    \* the steps its request has passed through, in order
    calls,    \* the driver calls its request has made, in order
    env       \* what the driver and the database did to its request

vars == <<client, created, pc, req, resp, handle, steps, calls, env>>

Outcomes == {"ok", "pymongo", "other"}

\* The database is the environment.  out: how the driver call ended; m: how
\* many documents the filter matched (or the collection holds); k: a second
\* number the backend decides; stats: per collection, whether the collStats
\* lookup succeeded.
Env(out, m, k, stats) == [out |-> out, m |-> m, k |-> k, stats |-> stats]
NoEnv == Env("none", 0, 0, <<>>)

\* Collection sizes: a few small ones, and one beyond the default limit.
MatchCounts == 0..MaxMatch \cup {DefaultLimit + 1}

Call(op, args) == [op |-> op, args |-> args]

\* What the rest of a handler, after get_client(), comes to.
Result(response, did, made) == [resp |-> response, steps |-> did, calls |-> made]

Init ==
    /\ client = 0
    /\ created = 0
    /\ pc = [t \in Threads |-> "idle"]
    /\ req = [t \in Threads |-> NoRequest]
    /\ resp = [t \in Threads |-> NoResponse]
    /\ handle = [t \in Threads |-> 0]
    /\ steps = [t \in Threads |-> <<>>]
    /\ calls = [t \in Threads |-> <<>>]
    /\ env = [t \in Threads |-> NoEnv]

\* ------------------------------------------------------------ request entry
\* A request arrives and is given to a worker thread (the lowest free one:
\* which thread serves a request makes no difference).
Accept(t, r) ==
    /\ pc[t] = "idle"
    /\ \A u \in Threads : u < t => pc[u] # "idle"
    /\ req' = [req EXCEPT ![t] = r]
    /\ pc' = [pc EXCEPT ![t] = "routed"]
    /\ UNCHANGED <<client, created, resp, handle, steps, calls, env>>

\* The response is sent; the thread is free again.
Finish(t) ==
    /\ pc[t] = "done"
    /\ pc' = [pc EXCEPT ![t] = "idle"]
    /\ req' = [req EXCEPT ![t] = NoRequest]
    /\ resp' = [resp EXCEPT ![t] = NoResponse]
    /\ handle' = [handle EXCEPT ![t] = 0]
    /\ steps' = [steps EXCEPT ![t] = <<>>]
    /\ calls' = [calls EXCEPT ![t] = <<>>]
    /\ env' = [env EXCEPT ![t] = NoEnv]
    /\ UNCHANGED <<client, created>>

\* A handler returns: the response, and the steps it took to get there.
Return(t, response, did) ==
    /\ resp' = [resp EXCEPT ![t] = response]
    /\ steps' = [steps EXCEPT ![t] = @ \o did]
    /\ pc' = [pc EXCEPT ![t] = "done"]

\* GET /: no authentication, no backend.
index(t) ==
    /\ pc[t] = "routed"
    /\ req[t].route = "index"
    /\ Return(t, Success("index", 0, <<>>), <<"handler", "respond">>)
    /\ UNCHANGED <<client, created, req, handle, calls, env>>

\* The decorator of every other route.
require_api_key(t) ==
    /\ pc[t] = "routed"
    /\ req[t].route \in ProtectedRoutes
    /\ IF Rejects(req[t].key)
       THEN Return(t, ErrorResponse(401, "Unauthorized - Invalid or missing API key"),
                   <<"auth", "respond">>)
       ELSE /\ pc' = [pc EXCEPT ![t] = IF req[t].route \in BodyRoutes
                                        THEN "body" ELSE "get_client"]
            /\ steps' = [steps EXCEPT ![t] = @ \o <<"auth", "handler">>]
            /\ UNCHANGED resp
    /\ UNCHANGED <<client, created, req, handle, calls, env>>

\* A body route reads and checks its body.
ValidateBody(t) ==
    /\ pc[t] = "body"
    /\ IF Validation(req[t]) # NoResponse
       THEN Return(t, Validation(req[t]), <<"get_json", "respond">>)
       ELSE /\ pc' = [pc EXCEPT ![t] = "get_client"]
            /\ steps' = [steps EXCEPT ![t] = @ \o <<"get_json">>]
            /\ UNCHANGED resp
    /\ UNCHANGED <<client, created, req, handle, calls, env>>

\* ---------------------------------------------------------------- get_client
\* A get_client that constructs a client on every call.
GetClientAlwaysCreate(t) ==
    /\ pc[t] = "get_client"
    /\ pc' = [pc EXCEPT ![t] = "create"]
    /\ UNCHANGED <<client, created, req, resp, handle, steps, calls, env>>

\* `if _client is None:`
GetClientTest(t) ==
    /\ pc[t] = "get_client"
    /\ pc' = [pc EXCEPT ![t] = IF client = 0 THEN "create" ELSE "return"]
    /\ UNCHANGED <<client, created, req, resp, handle, steps, calls, env>>

\* `_client = MongoClient(MONGO_URI)`: the constructor connects lazily; it
\* raises on a URI it cannot use, and then nothing is assigned.
GetClientCreate(t) ==
    /\ pc[t] = "create"
    /\ \E out \in Outcomes :
        IF out = "ok"
        THEN /\ created' = created + 1
             /\ client' = created + 1
             /\ pc' = [pc EXCEPT ![t] = "return"]
             /\ steps' = [steps EXCEPT ![t] = @ \o <<"MongoClient">>]
             /\ UNCHANGED resp
        ELSE /\ Return(t, Caught(req[t].route, out), <<"respond">>)
             /\ UNCHANGED <<client, created>>
    /\ UNCHANGED <<req, handle, calls, env>>

\* `return _client`
GetClientReturn(t) ==
    /\ pc[t] = "return"
    /\ handle' = [handle EXCEPT ![t] = client]
    /\ pc' = [pc EXCEPT ![t] = "operate"]
    /\ UNCHANGED <<client, created, req, resp, steps, calls, env>>

\* --------------------------------------------------------------- operations
\* The thread is past get_client(), in the handler of `route`.
Operating(t, route) == pc[t] = "operate" /\ req[t].route = route

\* The rest of the handler runs: its response, its steps and its driver calls.
Finished(t, e, res) ==
    /\ Return(t, res.resp, res.steps)
    /\ calls' = [calls EXCEPT ![t] = res.calls]
    /\ env' = [env EXCEPT ![t] = e]
    /\ UNCHANGED <<client, created, req, handle>>

\* An exception: the handler's except clauses answer.
Raised(r, exc, did, made) == Result(Caught(r.route, exc), did \o <<"respond">>, made)

\* `return jsonify({...})`: raises TypeError on a value that is not JSON-native.
Respond(r, shape, n, vals, did, made) ==
    IF \A i \in 1..Len(vals) : JsonSafe(vals[i])
    THEN Result(Success(shape, n, vals), did \o <<"respond">>, made)
    ELSE Raised(r, "other", did, made)

\* The ways a driver call can raise.
Failures == {Env(out, 0, 0, <<>>) : out \in {"pymongo", "other"}}

list_databasesRun(r, e) ==
    LET made == <<Call("list_databases", <<>>)>>
    IN  IF e.out # "ok" THEN Raised(r, e.out, <<"call">>, made)
        ELSE Respond(r, "list_databases", 0, <<BackendList(e.k, "plain")>>, <<"call">>, made)

list_databases(t) ==
    /\ Operating(t, "list_databases")
    /\ \E e \in Failures \cup {Env("ok", 0, k, <<>>) : k \in 1..MaxMatch} :
        Finished(t, e, list_databasesRun(req[t], e))

\* The inner try/except of list_collections: a bare name when collStats raised.
CollectionInfo(name, ok) == [name |-> name, stats |-> ok]

\* A listing without the inner try/except: one failed lookup fails it all.
list_collectionsStrict(r, e) ==
    LET n == Len(e.stats)
        names == <<Call("list_collection_names", <<>>)>>
        made == names \o [i \in 1..n |-> Call("collStats", <<PyInt(i)>>)]
    IN  IF e.out # "ok" THEN Raised(r, e.out, <<"call">>, names)
        ELSE IF \E i \in 1..n : ~e.stats[i] THEN Raised(r, "pymongo", <<"call">>, made)
        ELSE Result(Response(200, "list_collections", "", 0, <<>>,
                             [i \in 1..n |-> CollectionInfo(i, TRUE)]),
                    <<"call", "respond">>, made)

list_collectionsRun(r, e) ==
    LET n == Len(e.stats)
        names == <<Call("list_collection_names", <<>>)>>
        made == names \o [i \in 1..n |-> Call("collStats", <<PyInt(i)>>)]
    IN  IF e.out # "ok" THEN Raised(r, e.out, <<"call">>, names)
        ELSE Result(Response(200, "list_collections", "", 0, <<>>,
                             [i \in 1..n |-> CollectionInfo(i, e.stats[i])]),
                    <<"call", "respond">>, made)

list_collections(t) ==
    /\ Operating(t, "list_collections")
    /\ \E e \in Failures
            \cup {Env("ok", 0, 0, st) :
                    st \in UNION {[1..n -> BOOLEAN] : n \in 0..MaxColls}} :
        Finished(t, e, list_collectionsRun(req[t], e))

\* A cursor whose limit is never applied.
CursorUnlimited(m, skip, limit) == IF Truthy(skip) THEN Max(m - skip.n, 0) ELSE m

\* pymongo's cursor: skip(n) drops n documents, limit(n) keeps at most |n|;
\* the handler calls each only when its argument is truthy.
Cursor(m, skip, limit) ==
    LET after == IF Truthy(skip) THEN Max(m - skip.n, 0) ELSE m
    IN  IF Truthy(limit) THEN Min(after, Abs(limit.n)) ELSE after

\* A cursor option as the driver sees it: None when the handler left it out.
Applied(v) == IF Truthy(v) THEN v ELSE None

queryRun(r, e) ==
    LET filter == Get(r.data, "filter", PyDoc("empty"))
        filter_query == parse_json_extended(filter)
        projection == Get(r.data, "projection", None)
        sort == Get(r.data, "sort", None)
        limit == Get(r.data, "limit", PyInt(DefaultLimit))
        skip == Get(r.data, "skip", PyInt(0))
        made == <<Call("find", <<filter_query, projection, Applied(sort), Applied(skip),
                                 Applied(limit)>>)>>
        documents == BackendList(Cursor(e.m, skip, limit), "rich")
    IN  IF ParseRaises(filter) THEN Raised(r, "other", <<"decode">>, <<>>)
        ELSE IF e.out # "ok" THEN Raised(r, e.out, <<"decode", "call">>, made)
        ELSE Respond(r, "query", documents.n, <<serialize_response(documents)>>,
                     <<"decode", "call", "encode">>, made)

query(t) ==
    /\ Operating(t, "query")
    /\ \E e \in Failures \cup {Env("ok", m, 0, <<>>) : m \in MatchCounts} :
        Finished(t, e, queryRun(req[t], e))

aggregateRun(r, e) ==
    LET pipeline == Get(r.data, "pipeline", PyList(0, "plain"))
        made == <<Call("aggregate", <<parse_json_extended(pipeline)>>)>>
        results == BackendList(e.k, "rich")
    IN  IF ParseRaises(pipeline) THEN Raised(r, "other", <<"decode">>, <<>>)
        ELSE IF e.out # "ok" THEN Raised(r, e.out, <<"decode", "call">>, made)
        ELSE Respond(r, "aggregate", results.n, <<serialize_response(results)>>,
                     <<"decode", "call", "encode">>, made)

aggregate(t) ==
    /\ Operating(t, "aggregate")
    /\ \E e \in Failures \cup {Env("ok", 0, k, <<>>) : k \in 0..MaxMatch} :
        Finished(t, e, aggregateRun(req[t], e))

\* `if isinstance(documents, dict): documents = [documents]`
AsList(documents) ==
    IF documents.t = "doc" THEN [documents EXCEPT !.t = "list", !.n = 1] ELSE documents

insertRun(r, e) ==
    LET documents == AsList(Get(r.data, "documents", None))
        ordered == Get(r.data, "ordered", PyTrue)
        made == <<Call("insert_many", <<parse_json_extended(documents), ordered>>)>>
        inserted_ids == BackendList(documents.n, "rich")
    IN  IF ParseRaises(documents) THEN Raised(r, "other", <<"decode">>, <<>>)
        ELSE IF e.out # "ok" THEN Raised(r, e.out, <<"decode", "call">>, made)
        ELSE Respond(r, "insert", inserted_ids.n, <<serialize_response(inserted_ids)>>,
                     <<"decode", "call", "encode">>, made)

insert(t) ==
    /\ Operating(t, "insert")
    /\ \E e \in Failures \cup {Env("ok", 0, 0, <<>>)} :
        Finished(t, e, insertRun(req[t], e))

\* A handler that takes the bulk primitive whatever many says.
AlwaysBulk(name, many) == name \o "_many"

\* `if many:` picks the bulk primitive, `else:` the single-document one.
Primitive(name, many) == IF Truthy(many) THEN name \o "_many" ELSE name \o "_one"

\* update_one touches the first match only; update_many every match.
updateRun(r, e) ==
    LET filter == Get(r.data, "filter", PyDoc("empty"))
        update_doc == Get(r.data, "update", None)
        many == Get(r.data, "many", PyFalse)
        upsert == Get(r.data, "upsert", PyFalse)
        op == Primitive("update", many)
        made == <<Call(op, <<parse_json_extended(filter), parse_json_extended(update_doc),
                             upsert>>)>>
        matched_count == IF op = "update_many" THEN e.m ELSE Min(e.m, 1)
        modified_count == Min(e.k, matched_count)
        upserted == matched_count = 0 /\ Truthy(upsert)
        upserted_id == IF upserted THEN serialize_response(BackendDoc) ELSE None
        decoded == <<"decode", "decode", "call">>
    IN  IF ParseRaises(filter) THEN Raised(r, "other", <<"decode">>, <<>>)
        ELSE IF ParseRaises(update_doc) THEN Raised(r, "other", <<"decode", "decode">>, <<>>)
        ELSE IF e.out # "ok" THEN Raised(r, e.out, decoded, made)
        ELSE Respond(r, "update", 0,
                     <<BackendInt(matched_count), BackendInt(modified_count), upserted_id>>,
                     IF upserted THEN decoded \o <<"encode">> ELSE decoded, made)

update(t) ==
    /\ Operating(t, "update")
    /\ \E e \in Failures \cup {Env("ok", m, k, <<>>) : m \in MatchCounts, k \in 0..MaxMatch} :
        Finished(t, e, updateRun(req[t], e))

\* delete_one removes the first match only; delete_many every match.
deleteRun(r, e) ==
    LET filter == Get(r.data, "filter", PyDoc("empty"))
        many == Get(r.data, "many", PyFalse)
        op == Primitive("delete", many)
        made == <<Call(op, <<parse_json_extended(filter)>>)>>
        deleted_count == IF op = "delete_many" THEN e.m ELSE Min(e.m, 1)
    IN  IF ParseRaises(filter) THEN Raised(r, "other", <<"decode">>, <<>>)
        ELSE IF e.out # "ok" THEN Raised(r, e.out, <<"decode", "call">>, made)
        ELSE Respond(r, "delete", 0, <<BackendInt(deleted_count)>>,
                     <<"decode", "call">>, made)

delete(t) ==
    /\ Operating(t, "delete")
    /\ \E e \in Failures \cup {Env("ok", m, 0, <<>>) : m \in MatchCounts} :
        Finished(t, e, deleteRun(req[t], e))

\* client[db_name] raises InvalidName, a PyMongoError, on an empty name.
run_commandRun(r, e) ==
    LET db_name == Get(r.data, "database", J("str", 0, "admin", "", "py"))
        command == Get(r.data, "command", None)
        made == <<Call("command", <<parse_json_extended(command)>>)>>
    IN  IF db_name.s = "" THEN Raised(r, "pymongo", <<>>, <<>>)
        ELSE IF ParseRaises(command) THEN Raised(r, "other", <<"decode">>, <<>>)
        ELSE IF e.out # "ok" THEN Raised(r, e.out, <<"decode", "call">>, made)
        ELSE Respond(r, "run_command", 0, <<serialize_response(BackendDoc)>>,
                     <<"decode", "call", "encode">>, made)

run_command(t) ==
    /\ Operating(t, "run_command")
    /\ \E e \in Failures \cup {Env("ok", 0, 0, <<>>)} :
        Finished(t, e, run_commandRun(req[t], e))

count_documentsRun(r, e) ==
    LET made == <<Call("estimated_document_count", <<>>)>>
    IN  IF e.out # "ok" THEN Raised(r, e.out, <<"call">>, made)
        ELSE Respond(r, "count_documents", 0, <<BackendInt(e.m)>>, <<"call">>, made)

count_documents(t) ==
    /\ Operating(t, "count_documents")
    /\ \E e \in Failures \cup {Env("ok", m, 0, <<>>) : m \in MatchCounts} :
        Finished(t, e, count_documentsRun(req[t], e))

list_indexesRun(r, e) ==
    LET made == <<Call("list_indexes", <<>>)>>
        indexes == BackendList(e.k, "rich")
    IN  IF e.out # "ok" THEN Raised(r, e.out, <<"call">>, made)
        ELSE Respond(r, "list_indexes", 0, <<serialize_response(indexes)>>,
                     <<"call", "encode">>, made)

list_indexes(t) ==
    /\ Operating(t, "list_indexes")
    /\ \E e \in Failures \cup {Env("ok", 0, k, <<>>) : k \in 1..MaxMatch} :
        Finished(t, e, list_indexesRun(req[t], e))

\* The pipeline is built here, around the request's size as it came; the
\* backend rejects a size that is not positive.
sampleRun(r, e) ==
    LET size == Get(r.data, "size", PyInt(DefaultSampleSize))
        pipeline == PyList(1, "plain")
        made == <<Call("aggregate", <<pipeline, size>>)>>
        results == BackendList(Min(size.n, e.m), "rich")
    IN  IF e.out # "ok" THEN Raised(r, e.out, <<"call">>, made)
        ELSE IF size.n <= 0 THEN Raised(r, "pymongo", <<"call">>, made)
        ELSE Respond(r, "sample", results.n, <<serialize_response(results)>>,
                     <<"call", "encode">>, made)

sample(t) ==
    /\ Operating(t, "sample")
    /\ \E e \in Failures \cup {Env("ok", m, 0, <<>>) : m \in MatchCounts} :
        Finished(t, e, sampleRun(req[t], e))

\* ------------------------------------------------------------ specifications
Step(t) ==
    \/ index(t)
    \/ require_api_key(t)
    \/ ValidateBody(t)
    \/ GetClientTest(t)
    \/ GetClientCreate(t)
    \/ GetClientReturn(t)
    \/ list_databases(t)
    \/ list_collections(t)
    \/ query(t)
    \/ aggregate(t)
    \/ insert(t)
    \/ update(t)
    \/ delete(t)
    \/ run_command(t)
    \/ count_documents(t)
    \/ list_indexes(t)
    \/ sample(t)
    \/ Finish(t)

\* The requests a client can send.
AnyRequest(t) ==
    \E key \in HeaderValues :
        \/ Accept(t, BareRequest("index", key, "none"))
        \/ \E route \in PathRoutes : Accept(t, PathRequest(route, key))
        \/ \E route \in BodyRoutes, body \in BodyKinds \ {"dict"} :
                Accept(t, BareRequest(route, key, body))
        \/ \E d \in Names, c \in Names :
            \/ \E f \in Filters, s \in {Absent, JList(1, "plain")}, l \in Limits, k \in Skips :
                    Accept(t, QueryRequest(key, d, c, f, s, l, k))
            \/ \E p \in Pipelines : Accept(t, AggregateRequest(key, d, c, p))
            \/ \E x \in Documents, o \in Flags : Accept(t, InsertRequest(key, d, c, x, o))
            \/ \E f \in Filters, u \in Filters, m \in Flags, s \in Flags :
                    Accept(t, UpdateRequest(key, d, c, f, u, m, s))
            \/ \E f \in Filters, m \in Flags : Accept(t, DeleteRequest(key, d, c, f, m))
            \/ \E s \in Sizes : Accept(t, SampleRequest(key, d, c, s))
        \/ \E d \in Names, c \in Filters : Accept(t, CommandRequest(key, d, c))

\* Requests handled one after another: a request is taken up only when no
\* other is being served.
Receive(t) ==
    /\ \A u \in Threads : pc[u] = "idle"
    /\ AnyRequest(t)

Next == \E t \in Threads : Receive(t) \/ Step(t)

Spec == Init /\ [][Next]_vars

\* Requests handled concurrently, as app.run(threaded=True) does: a request is
\* taken up whenever a thread is free.  The path routes suffice to exercise
\* get_client(), which every route calls in the same way.
ReceiveThreaded(t) ==
    \E key \in HeaderValues :
        \/ Accept(t, BareRequest("index", key, "none"))
        \/ \E route \in PathRoutes : Accept(t, PathRequest(route, key))

ThreadedNext ==
    \E t \in Threads :
        \/ ReceiveThreaded(t)
        \/ index(t)
        \/ require_api_key(t)
        \/ GetClientTest(t)
        \/ GetClientCreate(t)
        \/ GetClientReturn(t)
        \/ list_databases(t)
        \/ list_collections(t)
        \/ count_documents(t)
        \/ list_indexes(t)
        \/ Finish(t)

ThreadedSpec == Init /\ [][ThreadedNext]_vars

\* ------------------------------------------------------------------- claims
Served(t) == pc[t] = "done"
Authenticated(t) == req[t].route \in ProtectedRoutes /\ req[t].key = JStr(API_KEY)
IsError(response, status) == response.status = status /\ response.shape = "error"
Has(seq, x) == \E i \in 1..Len(seq) : seq[i] = x

\* C1: on every protected route a request whose X-API-Key header is absent,
\* empty or different from the credential is answered 401 {"error": ...}
\* without the handler running, without a driver call and without a client
\* being constructed; a request with the right header reaches the handler,
\* and the gate leaves the request as it came.
BadKey(key) == key.t = "null" \/ key.s = "" \/ key.s # API_KEY

C1_Gate ==
    \A t \in Threads :
        (req[t].route \in ProtectedRoutes /\ pc[t] # "routed") =>
            IF BadKey(req[t].key)
            THEN /\ Served(t)
                 /\ IsError(resp[t], 401)
                 /\ steps[t] = <<"auth", "respond">>
                 /\ calls[t] = <<>>
                 /\ handle[t] = 0
            ELSE /\ Len(steps[t]) >= 2
                 /\ steps[t][1] = "auth"
                 /\ steps[t][2] = "handler"

C1_AuthGate ==
    /\ []C1_Gate
    /\ [][\A t \in Threads :
            (pc[t] = "routed" /\ pc'[t] # "routed") =>
                /\ req'[t] = req[t]
                /\ (BadKey(req[t].key) /\ req[t].route # "index" =>
                        client' = client /\ created' = created)]_vars

C1_Witness ==
    \E t \in Threads :
        /\ Served(t)
        /\ req[t].route = "insert"
        /\ req[t].key = JStr("k2")
        /\ req[t].data["documents"] = JDoc("plain")
        /\ resp[t].status = 401

\* C2: when requests are handled concurrently while _client is still None,
\* at most one MongoClient is ever constructed and all requests use the same
\* handle.
C2_SingleClient ==
    /\ created <= 1
    /\ \A t \in Threads : handle[t] # 0 => handle[t] = 1

\* C3: handling requests one after another, _client is None at start, is
\* left alone by GET /, by a request rejected 401 and by one rejected with a
\* validation 400; whoever reaches a driver call holds the one client; and
\* once set, _client is never reset or replaced.
ValidationError(response) ==
    /\ IsError(response, 400)
    /\ response.msg \in {"Request body required"} \cup {RequiredMessage(r) : r \in BodyRoutes}

C3_Uses ==
    \A t \in Threads :
        /\ (pc[t] = "operate" \/ calls[t] # <<>>) =>
                client # 0 /\ handle[t] = client /\ created = 1
        /\ (Served(t) /\ (req[t].route = "index" \/ resp[t].status = 401
                            \/ ValidationError(resp[t]))) =>
                ~Has(steps[t], "MongoClient") /\ handle[t] = 0 /\ calls[t] = <<>>

C3_Steps ==
    /\ client # 0 => client' = client
    /\ \A t \in Threads : pc[t] \in {"routed", "body"} /\ pc'[t] # pc[t] => client' = client
    /\ client # client' =>
            \E t \in Threads : pc[t] = "create" /\ pc'[t] = "return" /\ created = 0

C3_LazySingleton == (client = 0) /\ []C3_Uses /\ [][C3_Steps]_vars

C3_Witness ==
    \E t \in Threads :
        /\ pc[t] = "operate"
        /\ ~Has(steps[t], "MongoClient")
        /\ handle[t] = 1
        /\ req[t].route = "query"

\* C4: an authenticated body request with no body, an empty body or without
\* a required field of its operation (aggregate: database, collection and
\* pipeline) is answered 400 {"error": ...} before the backend is touched.
ClaimedRequired(route) ==
    CASE route = "aggregate" -> {"database", "collection", "pipeline"}
      [] route = "insert" -> {"database", "collection", "documents"}
      [] route = "update" -> {"database", "collection", "update"}
      [] route = "run_command" -> {"command"}
      [] OTHER -> {"database", "collection"}

Lacking(r) ==
    \/ r.body \in {"null", "empty"}
    \/ r.body = "dict" /\ \E f \in ClaimedRequired(r.route) : r.data[f].t = "absent"

C4_Validation ==
    \A t \in Threads :
        (Authenticated(t) /\ req[t].route \in BodyRoutes /\ Lacking(req[t])
            /\ pc[t] \notin {"routed", "body"}) =>
                /\ Served(t)
                /\ IsError(resp[t], 400)
                /\ calls[t] = <<>>
                /\ handle[t] = 0
                /\ ~Has(steps[t], "MongoClient")

\* C5: every authenticated request on a protected route ends in a success,
\* in 500 {"error": backend message}, or in 400 {"error": ...}; no exception
\* escapes a handler.
C5_Outcomes ==
    \A t \in Threads :
        (Served(t) /\ Authenticated(t)) =>
            \/ resp[t].status = 200 /\ resp[t].shape = req[t].route
            \/ IsError(resp[t], 500) /\ resp[t].msg = "backend"
            \/ IsError(resp[t], 400)

\* C6 as claimed: a find's count is the length of its documents and is at
\* most the request's limit (read here for limits that are not negative),
\* or 100 when limit is omitted.
FindDone(t) == Served(t) /\ req[t].route = "query" /\ resp[t].status = 200

C6_LimitAsGiven ==
    \A t \in Threads :
        FindDone(t) =>
            LET limit == req[t].data["limit"]
            IN  /\ resp[t].n = resp[t].vals[1].n
                /\ limit.t = "absent" => resp[t].n <= DefaultLimit
                /\ (limit.t = "int" /\ limit.n >= 0) => resp[t].n <= limit.n

\* C6 as amended: a find's count is the length of its documents; it is the
\* number of matches left after skip (0 when omitted), cut to limit when
\* limit is a positive integer, to -limit when it is negative, to 100 when
\* it is omitted, and not cut at all when limit is 0 or null.
C6_FindCount ==
    \A t \in Threads :
        FindDone(t) =>
            LET limit == req[t].data["limit"]
                skip == IF req[t].data["skip"].t = "absent" THEN 0 ELSE req[t].data["skip"].n
                left == Max(env[t].m - skip, 0)
            IN  /\ resp[t].n = resp[t].vals[1].n
                /\ resp[t].vals[1].t = "list"
                /\ resp[t].n =
                     CASE limit.t = "absent" -> Min(left, DefaultLimit)
                       [] limit.t = "int" /\ limit.n > 0 -> Min(left, limit.n)
                       [] limit.t = "int" /\ limit.n < 0 -> Min(left, 0 - limit.n)
                       [] OTHER -> left

C6_Witness ==
    \E t \in Threads :
        /\ FindDone(t)
        /\ req[t].data["limit"] = Absent
        /\ env[t].m > DefaultLimit
        /\ resp[t].n = DefaultLimit

\* C7: inserting an object d gives what inserting [d] gives: the same
\* status, the same body shape with one inserted id, the same insert_many.
C7_ObjectAsList ==
    \A t \in Threads :
        (Served(t) /\ Authenticated(t) /\ req[t].route = "insert"
            /\ req[t].body = "dict" /\ req[t].data["documents"].t = "doc") =>
            LET d == req[t].data["documents"]
                listed == [req[t] EXCEPT !.data["documents"] = JList(1, d.k)]
            IN  IF Validation(listed) # NoResponse
                THEN resp[t] = Validation(listed) /\ calls[t] = <<>>
                ELSE IF env[t] # NoEnv
                THEN /\ resp[t] = insertRun(listed, env[t]).resp
                     /\ calls[t] = insertRun(listed, env[t]).calls
                ELSE /\ calls[t] = <<>>
                     /\ resp[t] \in {Caught("insert", "pymongo"), Caught("insert", "other")}
                     /\ Has(steps[t], "get_json") /\ ~Has(steps[t], "MongoClient")
                     /\ Validation(req[t]) = NoResponse

C9_Listing ==
    \A t \in Threads :
        (Served(t) /\ req[t].route = "list_collections" /\ env[t] # NoEnv) =>
            IF env[t].out = "ok"
            THEN /\ resp[t].status = 200
                 /\ resp[t].shape = "list_collections"
                 /\ Len(resp[t].entries) = Len(env[t].stats)
                 /\ \A i \in 1..Len(env[t].stats) :
                        /\ resp[t].entries[i].name = i
                        /\ resp[t].entries[i].stats = env[t].stats[i]
                        /\ calls[t][i + 1] = Call("collStats", <<PyInt(i)>>)
            ELSE resp[t].status = 500 /\ resp[t].entries = <<>>

C9_Witness ==
    \E t \in Threads :
        /\ Served(t)
        /\ req[t].route = "list_collections"
        /\ env[t].out = "ok"
        /\ Len(resp[t].entries) = 2
        /\ resp[t].entries[1].stats
        /\ ~resp[t].entries[2].stats

\* C10 as claimed: every successful request goes auth, decode, backend call,
\* encode, response; whatever the driver is handed was decoded, and whatever
\* the backend returned was encoded before it was put in the response.
Stages == <<"auth", "decode", "call", "encode", "respond">>
Rank(step) == CHOOSE i \in 1..Len(Stages) : Stages[i] = step
Staged(seq) == SelectSeq(seq, LAMBDA x : Has(Stages, x))
InOrder(seq) == \A i \in 1..Len(seq), j \in 1..Len(seq) : i < j => Rank(seq[i]) <= Rank(seq[j])
Succeeded(t) == Served(t) /\ req[t].route \in ProtectedRoutes /\ resp[t].status = 200
FromBackend(v) == v.via \in {"backend", "encoded"}

FromRequest(op) ==
    CASE op \in {"find", "insert_many", "delete_one", "delete_many", "command"} -> {1}
      [] op \in {"update_one", "update_many"} -> {1, 2}
      [] OTHER -> {}

====
